---- MODULE Spec2Model ----
(***************************************************************************)
(* Dispatch engine of the DriverLink backend: the orders, drivers and      *)
(* order_notifications tables, the row locks of SELECT ... FOR UPDATE, and *)
(* the request handlers that read and write them.  Every handler runs in   *)
(* its own database session (READ COMMITTED): reads see committed rows,    *)
(* the ORM's pending changes become visible in one step at commit, and a   *)
(* row lock is held until the transaction ends.  The application is served *)
(* by several workers, so the statements of an accept request interleave   *)
(* with the other requests; the handlers that read and write within one    *)
(* statement group and take no lock are single steps.  The Notification    *)
(* Hub (ConnectionManager) is modelled next to it: its two maps, the       *)
(* connection handlers and the sends, split at their awaits (SpecHub,      *)
(* SpecNotify).  Candidate selection and the distance estimator are pure   *)
(* operators over a snapshot of the fleet (SpecSelect); POST /orders and   *)
(* POST /orders/{order_id}/accept are followed from their first statement  *)
(* to their return in SpecCreate and SpecAccept, and racing accept         *)
(* requests in SpecRace and, under fair scheduling, SpecRaceFair.          *)
(***************************************************************************)
EXTENDS Integers, FiniteSets, Sequences, TLC

\* ---- bounds of the model ----
NumDrivers == 2
MaxOrders == 2
\* workers serving accept requests while the other handlers run
NumWorkers == 1
\* clients that send one accept request each, at the same time
NumRacers == 2
\* rows of the drivers and orders tables together
MaxRows == 3
\* drivers in the fleets used to rank candidates (more than the fan-out limit)
NumFleet == 6
\* drivers in the fleets that mix eligible and ineligible drivers
MaxMixedFleet == 2
\* WebSocket connections opened during a run of the Notification Hub
NumConns == 3
\* calls of send_personal_message during a run of the Notification Hub
MaxMsgs == 2

\* a NULL foreign key / an id that names no row (ids start at 1)
NULL == 0
\* Python's None where the other values are records
None == [none |-> TRUE]

Drivers == 1..NumDrivers
OrderIds == 1..MaxOrders
\* WebSocket objects, one per connection a client opens
Conns == 1..NumConns
\* messages, one per call of send_personal_message
Msgs == 1..MaxMsgs

\* config.py
MAX_DISTANCE_KM == 50
MAX_DRIVERS_TO_NOTIFY == 5

\* models.py enumerations
VehicleType == {"motorcycle", "car", "van", "truck"}
DriverStatus == {"available", "busy", "offline"}
ApprovalStatus == {"pending", "approved", "rejected"}
OrderStatus == {"pending", "assigned", "in_progress", "delivered", "cancelled"}

VARIABLES
    orders,     \* orders table:  order id -> row
    drivers,    \* drivers table: driver id -> row
    notifs,     \* order_notifications table: order id -> driver id -> row
    ordLock,    \* FOR UPDATE lock on an orders row: the session holding it, or NULL
    drvLock,    \* FOR UPDATE lock on a drivers row: the session holding it, or NULL
    proc,       \* accept requests in flight: position, arguments, rows read, result
    active_connections,   \* ConnectionManager: driver id -> websocket, NULL without a key
    driver_connections,   \* ConnectionManager: websocket -> driver id, NULL without a key
    handler,    \* handle_websocket_connection per websocket: position and driver
    sender,     \* send_personal_message per message: position, driver, websocket, result
    wire,       \* websocket -> the messages written to it by send_text
    fleet,      \* candidate selection: the drivers table as the query reads it, and
                \* what the routing oracle and the haversine formula give per driver
    db_order,   \* candidate selection: weight_kg and value of the order
    selection,  \* candidate selection: position, the list returned, the rows added
    driver_ids  \* the list given to notify_drivers_about_order

vars == <<orders, drivers, notifs, ordLock, drvLock, proc,
          active_connections, driver_connections, handler, sender, wire,
          fleet, db_order, selection, driver_ids>>
\* the dispatch engine's part of the state and the Notification Hub's part
dispatch == <<orders, drivers, notifs, ordLock, drvLock, proc>>
hub == <<active_connections, driver_connections, handler, sender, wire>>
\* POST /orders after the order row is committed: candidate selection and fan-out
creation == <<fleet, db_order, selection, driver_ids>>
Procs == DOMAIN proc
db == <<orders, drivers, notifs>>

\* ---- rows ----
NoOrder == [exists |-> FALSE, status |-> "pending", driver_id |-> NULL, assigned_at |-> FALSE]
NewOrder == [exists |-> TRUE, status |-> "pending", driver_id |-> NULL, assigned_at |-> FALSE]
NoDriver == [exists |-> FALSE, status |-> "offline", approval_status |-> "pending"]
\* a registered driver whose documents were approved, before going on duty
ApprovedDriver == [exists |-> TRUE, status |-> "offline", approval_status |-> "approved"]
NoNotification == [exists |-> FALSE, response |-> "null", response_at |-> FALSE]
NewNotification == [exists |-> TRUE, response |-> "null", response_at |-> FALSE]

\* ---- a request handler between requests ----
Idle == [pc |-> "idle", me |-> NULL, ord |-> NULL, own |-> FALSE, others |-> {},
         ret |-> "None", cause |-> "none"]

\* ---- the Notification Hub before any connection ----
NewHandler == [pc |-> "new", driver_id |-> NULL]
NewSender == [pc |-> "idle", driver_id |-> NULL, websocket |-> NULL, ret |-> "None"]
\* ConnectionManager.__init__ : both maps empty
ConnectionManager_init ==
    /\ active_connections = [d \in Drivers |-> NULL]
    /\ driver_connections = [c \in Conns |-> NULL]
    /\ handler = [c \in Conns |-> NewHandler]
    /\ sender = [m \in Msgs |-> NewSender]
    /\ wire = [c \in Conns |-> {}]

\* ---- no order is being created ----
NoSelection == [pc |-> "start", suitable_drivers |-> <<>>, notifications |-> <<>>]
NoCreation ==
    /\ fleet = <<>>
    /\ db_order = [weight_kg |-> None, value |-> None]
    /\ selection = NoSelection
    /\ driver_ids = <<>>

NumRows == Cardinality({d \in Drivers : drivers[d].exists})
           + Cardinality({o \in OrderIds : orders[o].exists})

\* a deployment with a registered fleet and no order yet
Init ==
    /\ orders = [o \in OrderIds |-> NoOrder]
    /\ \E k \in Drivers :
          drivers = [d \in Drivers |-> IF d <= k THEN ApprovedDriver ELSE NoDriver]
    /\ notifs = [o \in OrderIds |-> [d \in Drivers |-> NoNotification]]
    /\ ordLock = [o \in OrderIds |-> NULL]
    /\ drvLock = [d \in Drivers |-> NULL]
    /\ proc = [p \in 1..NumWorkers |-> Idle]
    /\ ConnectionManager_init
    /\ NoCreation

\* the locks of session p are released when its transaction ends
Release(lock, p) == [x \in DOMAIN lock |-> IF lock[x] = p THEN NULL ELSE lock[x]]

OrderIsPending(o) == orders[o].exists /\ orders[o].status = "pending"
DriverIsEligible(d) ==
    /\ drivers[d].exists
    /\ drivers[d].status = "available"
    /\ drivers[d].approval_status = "approved"

\* ------------------------------------------------------------------------
\* POST /orders/{order_id}/accept  and  assign_order_to_first_accepter.
\* The transaction spans several statements, so it is modelled statement by
\* statement; other sessions run between the statements.
\* ------------------------------------------------------------------------

\* get_current_driver loads the driver row (404 without one); the endpoint
\* refuses a driver that is not approved (403) or not available (400) before
\* calling the service
accept_order_begin(p, d, o) ==
    /\ proc[p].pc = "idle"
    /\ DriverIsEligible(d)
    /\ proc' = [proc EXCEPT ![p] = [Idle EXCEPT !.pc = "lock_order", !.me = d, !.ord = o]]
    /\ UNCHANGED <<orders, drivers, notifs, ordLock, drvLock>>
    /\ UNCHANGED <<hub, creation>>

\* assign_LockOrder with a plain SELECT: no row lock is taken or waited for
assign_LockOrder_NoLock(p) ==
    /\ proc[p].pc = "lock_order"
    /\ proc' = IF OrderIsPending(proc[p].ord)
               THEN [proc EXCEPT ![p].pc = "lock_driver"]
               ELSE [proc EXCEPT ![p].pc = "ret", ![p].ret = "False",
                                 ![p].cause = "order_not_pending"]
    /\ UNCHANGED <<orders, drivers, notifs, ordLock, drvLock>>
    /\ UNCHANGED <<hub, creation>>

\* assign_LockOrder in which every second worker locks the driver row before
\* the order row
assign_LockOrder_DriverFirst(p) ==
    /\ proc[p].pc = "lock_order"
    /\ LET o == proc[p].ord
           d == proc[p].me IN
       IF p % 2 = 1 /\ drvLock[d] # p
       THEN /\ drvLock[d] = NULL
            /\ drvLock' = [drvLock EXCEPT ![d] = p]
            /\ UNCHANGED <<ordLock, proc>>
       ELSE /\ IF OrderIsPending(o)
               THEN /\ ordLock[o] \in {NULL, p}
                    /\ ordLock' = [ordLock EXCEPT ![o] = p]
                    /\ proc' = [proc EXCEPT ![p].pc = "lock_driver"]
               ELSE /\ proc' = [proc EXCEPT ![p].pc = "ret", ![p].ret = "False",
                                            ![p].cause = "order_not_pending"]
                    /\ UNCHANGED ordLock
            /\ UNCHANGED drvLock
    /\ UNCHANGED <<orders, drivers, notifs>>
    /\ UNCHANGED <<hub, creation>>

\* SELECT ... FROM orders WHERE id = :o AND status = 'pending' FOR UPDATE
\* waits while another session holds the row, then evaluates the filter again
assign_LockOrder(p) ==
    /\ proc[p].pc = "lock_order"
    /\ LET o == proc[p].ord IN
       IF OrderIsPending(o)
       THEN /\ ordLock[o] \in {NULL, p}
            /\ ordLock' = [ordLock EXCEPT ![o] = p]
            /\ proc' = [proc EXCEPT ![p].pc = "lock_driver"]
       ELSE /\ proc' = [proc EXCEPT ![p].pc = "ret", ![p].ret = "False",
                                    ![p].cause = "order_not_pending"]
            /\ UNCHANGED ordLock
    /\ UNCHANGED <<orders, drivers, notifs, drvLock>>
    /\ UNCHANGED <<hub, creation>>

\* assign_LockDriver with a plain SELECT: no row lock is taken or waited for
assign_LockDriver_NoLock(p) ==
    /\ proc[p].pc = "lock_driver"
    /\ proc' = IF DriverIsEligible(proc[p].me)
               THEN [proc EXCEPT ![p].pc = "query_own"]
               ELSE [proc EXCEPT ![p].pc = "ret", ![p].ret = "False",
                                 ![p].cause = "driver_not_eligible"]
    /\ UNCHANGED <<orders, drivers, notifs, ordLock, drvLock>>
    /\ UNCHANGED <<hub, creation>>

\* assign_LockDriver with the order written and committed before the driver
\* is looked at
assign_LockDriver_OrderFirst(p) ==
    /\ proc[p].pc = "lock_driver"
    /\ LET d == proc[p].me
           o == proc[p].ord IN
       IF DriverIsEligible(d)
       THEN /\ drvLock[d] \in {NULL, p}
            /\ drvLock' = [drvLock EXCEPT ![d] = p]
            /\ proc' = [proc EXCEPT ![p].pc = "query_own"]
            /\ UNCHANGED <<orders, ordLock>>
       ELSE /\ proc' = [proc EXCEPT ![p].pc = "ret", ![p].ret = "False",
                                    ![p].cause = "driver_not_eligible"]
            /\ orders' = [orders EXCEPT ![o].driver_id = d, ![o].status = "assigned",
                                        ![o].assigned_at = TRUE]
            /\ ordLock' = Release(ordLock, p)
            /\ UNCHANGED drvLock
    /\ UNCHANGED <<drivers, notifs>>
    /\ UNCHANGED <<hub, creation>>

\* SELECT ... FROM drivers WHERE id = :d AND status = 'available'
\*   AND approval_status = 'approved' FOR UPDATE
assign_LockDriver(p) ==
    /\ proc[p].pc = "lock_driver"
    /\ LET d == proc[p].me IN
       IF DriverIsEligible(d)
       THEN /\ drvLock[d] \in {NULL, p}
            /\ drvLock' = [drvLock EXCEPT ![d] = p]
            /\ proc' = [proc EXCEPT ![p].pc = "query_own"]
       ELSE /\ proc' = [proc EXCEPT ![p].pc = "ret", ![p].ret = "False",
                                    ![p].cause = "driver_not_eligible"]
            /\ UNCHANGED drvLock
    /\ UNCHANGED <<orders, drivers, notifs, ordLock>>
    /\ UNCHANGED <<hub, creation>>

\* assign_QueryOwn that gives up unless the driver holds an unanswered
\* notification for the order
assign_QueryOwn_OfferRequired(p) ==
    /\ proc[p].pc = "query_own"
    /\ LET n == notifs[proc[p].ord][proc[p].me] IN
       IF n.exists /\ n.response = "null"
       THEN /\ proc' = [proc EXCEPT ![p].pc = "query_others", ![p].own = TRUE]
            /\ UNCHANGED <<ordLock, drvLock>>
       ELSE /\ proc' = [proc EXCEPT ![p].pc = "ret", ![p].ret = "False",
                                    ![p].cause = "not_offered"]
            /\ ordLock' = Release(ordLock, p)
            /\ drvLock' = Release(drvLock, p)
    /\ UNCHANGED <<orders, drivers, notifs>>
    /\ UNCHANGED <<hub, creation>>

\* the driver's own notification for the order, .first()
assign_QueryOwn(p) ==
    /\ proc[p].pc = "query_own"
    /\ proc' = [proc EXCEPT ![p].pc = "query_others",
                            ![p].own = notifs[proc[p].ord][proc[p].me].exists]
    /\ UNCHANGED <<orders, drivers, notifs, ordLock, drvLock>>
    /\ UNCHANGED <<hub, creation>>

\* the other drivers' notifications for the order with response IS NULL
assign_QueryOthers(p) ==
    /\ proc[p].pc = "query_others"
    /\ proc' = [proc EXCEPT ![p].pc = "commit",
                            ![p].others = {d \in Drivers \ {proc[p].me} :
                                /\ notifs[proc[p].ord][d].exists
                                /\ notifs[proc[p].ord][d].response = "null"}]
    /\ UNCHANGED <<orders, drivers, notifs, ordLock, drvLock>>
    /\ UNCHANGED <<hub, creation>>

\* assign_Commit that rolls back and returns False for a driver without a
\* notification for the order
assign_Commit_OfferRequired(p) ==
    /\ proc[p].pc = "commit"
    /\ LET o == proc[p].ord
           d == proc[p].me IN
       IF proc[p].own
       THEN /\ orders' = [orders EXCEPT ![o].driver_id = d, ![o].status = "assigned",
                                        ![o].assigned_at = TRUE]
            /\ drivers' = [drivers EXCEPT ![d].status = "busy"]
            /\ notifs' = [notifs EXCEPT ![o] = [x \in Drivers |->
                  IF x = d
                  THEN [notifs[o][x] EXCEPT !.response = "accepted", !.response_at = TRUE]
                  ELSE IF x \in proc[p].others
                  THEN [notifs[o][x] EXCEPT !.response = "expired", !.response_at = TRUE]
                  ELSE notifs[o][x]]]
            /\ proc' = [proc EXCEPT ![p].pc = "ret", ![p].ret = "True",
                                    ![p].cause = "assigned"]
       ELSE /\ proc' = [proc EXCEPT ![p].pc = "ret", ![p].ret = "False",
                                    ![p].cause = "not_offered"]
            /\ UNCHANGED <<orders, drivers, notifs>>
    /\ ordLock' = Release(ordLock, p)
    /\ drvLock' = Release(drvLock, p)
    /\ UNCHANGED <<hub, creation>>

\* assign_Commit without order.assigned_at = datetime.utcnow()
assign_Commit_NoStamp(p) ==
    /\ proc[p].pc = "commit"
    /\ LET o == proc[p].ord
           d == proc[p].me IN
       /\ orders' = [orders EXCEPT ![o].driver_id = d, ![o].status = "assigned"]
       /\ drivers' = [drivers EXCEPT ![d].status = "busy"]
       /\ notifs' = [notifs EXCEPT ![o] = [x \in Drivers |->
             IF x = d /\ proc[p].own
             THEN [notifs[o][x] EXCEPT !.response = "accepted", !.response_at = TRUE]
             ELSE IF x \in proc[p].others
             THEN [notifs[o][x] EXCEPT !.response = "expired", !.response_at = TRUE]
             ELSE notifs[o][x]]]
    /\ ordLock' = Release(ordLock, p)
    /\ drvLock' = Release(drvLock, p)
    /\ proc' = [proc EXCEPT ![p].pc = "ret", ![p].ret = "True", ![p].cause = "assigned"]
    /\ UNCHANGED <<hub, creation>>

\* db.commit(): the session's pending UPDATEs become visible together and
\* the row locks are released
assign_Commit(p) ==
    /\ proc[p].pc = "commit"
    /\ LET o == proc[p].ord
           d == proc[p].me IN
       /\ orders' = [orders EXCEPT ![o].driver_id = d, ![o].status = "assigned",
                                   ![o].assigned_at = TRUE]
       /\ drivers' = [drivers EXCEPT ![d].status = "busy"]
       /\ notifs' = [notifs EXCEPT ![o] = [x \in Drivers |->
             IF x = d /\ proc[p].own
             THEN [notifs[o][x] EXCEPT !.response = "accepted", !.response_at = TRUE]
             ELSE IF x \in proc[p].others
             THEN [notifs[o][x] EXCEPT !.response = "expired", !.response_at = TRUE]
             ELSE notifs[o][x]]]
    /\ ordLock' = Release(ordLock, p)
    /\ drvLock' = Release(drvLock, p)
    /\ proc' = [proc EXCEPT ![p].pc = "ret", ![p].ret = "True", ![p].cause = "assigned"]
    /\ UNCHANGED <<hub, creation>>

\* assign_Exception without db.rollback(): the flushed order row is committed
\* when the session is reused
assign_Exception_NoRollback(p) ==
    /\ proc[p].pc \in {"lock_order", "lock_driver", "query_own", "query_others", "commit"}
    /\ orders' = IF proc[p].pc \in {"query_others", "commit"}
                 THEN [orders EXCEPT ![proc[p].ord].driver_id = proc[p].me,
                                     ![proc[p].ord].status = "assigned",
                                     ![proc[p].ord].assigned_at = TRUE]
                 ELSE orders
    /\ ordLock' = Release(ordLock, p)
    /\ drvLock' = Release(drvLock, p)
    /\ proc' = [proc EXCEPT ![p].pc = "ret", ![p].ret = "False", ![p].cause = "exception"]
    /\ UNCHANGED <<drivers, notifs>>
    /\ UNCHANGED <<hub, creation>>

\* assign_Exception that rolls back and raises again instead of returning False
assign_Exception_Reraise(p) ==
    /\ proc[p].pc \in {"lock_order", "lock_driver", "query_own", "query_others", "commit"}
    /\ ordLock' = Release(ordLock, p)
    /\ drvLock' = Release(drvLock, p)
    /\ proc' = [proc EXCEPT ![p].pc = "ret", ![p].cause = "exception"]
    /\ UNCHANGED <<orders, drivers, notifs>>
    /\ UNCHANGED <<hub, creation>>

\* except Exception: db.rollback(); return False
assign_Exception(p) ==
    /\ proc[p].pc \in {"lock_order", "lock_driver", "query_own", "query_others", "commit"}
    /\ ordLock' = Release(ordLock, p)
    /\ drvLock' = Release(drvLock, p)
    /\ proc' = [proc EXCEPT ![p].pc = "ret", ![p].ret = "False", ![p].cause = "exception"]
    /\ UNCHANGED <<orders, drivers, notifs>>
    /\ UNCHANGED <<hub, creation>>

assign_order_to_first_accepter(p) ==
    \/ assign_LockOrder(p)
    \/ assign_LockDriver(p)
    \/ assign_QueryOwn(p)
    \/ assign_QueryOthers(p)
    \/ assign_Commit(p)
    \/ assign_Exception(p)

\* the request ends: the session is closed, which ends any open transaction,
\* and the worker is free for the next request
CloseSession(p) ==
    /\ proc[p].pc = "ret"
    /\ ordLock' = Release(ordLock, p)
    /\ drvLock' = Release(drvLock, p)
    /\ proc' = [proc EXCEPT ![p] = Idle]
    /\ UNCHANGED <<orders, drivers, notifs>>
    /\ UNCHANGED <<hub, creation>>

\* the same, for a client that sends one request: its outcome stays on record
CloseLastSession(p) ==
    /\ proc[p].pc = "ret"
    /\ ordLock' = Release(ordLock, p)
    /\ drvLock' = Release(drvLock, p)
    /\ proc' = [proc EXCEPT ![p].pc = "closed", ![p].own = FALSE, ![p].others = {}]
    /\ UNCHANGED <<orders, drivers, notifs>>
    /\ UNCHANGED <<hub, creation>>

\* ------------------------------------------------------------------------
\* The other handlers read and commit without holding a row lock in between:
\* one step each.  An UPDATE waits for a row another session holds FOR UPDATE.
\* ------------------------------------------------------------------------

\* POST /orders/{order_id}/reject and reject_order: the driver's notification
\* for the order, if there is one, becomes rejected
\* reject_order_rows that takes back a rejection sent before
reject_order_rows_Toggle(n, o, d) ==
    IF n[o][d].exists
    THEN [n EXCEPT ![o][d] = IF @.response = "rejected"
                             THEN [@ EXCEPT !.response = "null", !.response_at = FALSE]
                             ELSE [@ EXCEPT !.response = "rejected", !.response_at = TRUE]]
    ELSE n

\* the order_notifications table n after reject_order: the row of (o, d), if
\* there is one, gets response rejected and response_at = utcnow(), whatever
\* its response was
reject_order_rows(n, o, d) ==
    IF n[o][d].exists
    THEN [n EXCEPT ![o][d] = [@ EXCEPT !.response = "rejected", !.response_at = TRUE]]
    ELSE n

\* reject_order that answers for every driver the order was offered to
reject_order_AllRows(d, o) ==
    /\ drivers[d].exists
    /\ notifs' = [notifs EXCEPT ![o] = [x \in Drivers |->
                     IF notifs[o][d].exists /\ notifs[o][x].exists
                     THEN [notifs[o][x] EXCEPT !.response = "rejected", !.response_at = TRUE]
                     ELSE notifs[o][x]]]
    /\ UNCHANGED <<orders, drivers, ordLock, drvLock, proc>>
    /\ UNCHANGED <<hub, creation>>

reject_order(d, o) ==
    /\ drivers[d].exists
    /\ notifs' = reject_order_rows(notifs, o, d)
    /\ UNCHANGED <<orders, drivers, ordLock, drvLock, proc>>
    /\ UNCHANGED <<hub, creation>>

\* PUT /drivers/status: an approved driver sets any status
update_driver_status(d, s) ==
    /\ drivers[d].exists
    /\ drivers[d].approval_status = "approved"
    /\ s # drivers[d].status
    /\ drvLock[d] = NULL
    /\ drivers' = [drivers EXCEPT ![d].status = s]
    /\ UNCHANGED <<orders, notifs, ordLock, drvLock, proc>>
    /\ UNCHANGED <<hub, creation>>

\* update_order_status that frees the driver on every status that ends the
\* delivery, cancelled included
update_order_status_FreeOnCancel(d, o, s) ==
    /\ drivers[d].exists
    /\ orders[o].exists
    /\ orders[o].driver_id = d
    /\ ordLock[o] = NULL
    /\ orders' = [orders EXCEPT ![o].status = s]
    /\ IF s \in {"delivered", "cancelled"} /\ drivers[d].status # "available"
       THEN /\ drvLock[d] = NULL
            /\ drivers' = [drivers EXCEPT ![d].status = "available"]
       ELSE UNCHANGED drivers
    /\ UNCHANGED <<notifs, ordLock, drvLock, proc>>
    /\ UNCHANGED <<hub, creation>>

\* PUT /orders/{order_id}/status: the order is looked up by id and
\* driver_id = the calling driver; any status is written; on delivered the
\* driver becomes available
update_order_status(d, o, s) ==
    /\ drivers[d].exists
    /\ orders[o].exists
    /\ orders[o].driver_id = d
    /\ ordLock[o] = NULL
    /\ orders' = [orders EXCEPT ![o].status = s]
    /\ IF s = "delivered" /\ drivers[d].status # "available"
       THEN /\ drvLock[d] = NULL
            /\ drivers' = [drivers EXCEPT ![d].status = "available"]
       ELSE UNCHANGED drivers
    /\ UNCHANGED <<notifs, ordLock, drvLock, proc>>
    /\ UNCHANGED <<hub, creation>>

\* POST /orders: db.add(db_order); db.commit(): the next id of the orders
\* table, status pending, no driver
create_order(o) ==
    /\ ~orders[o].exists
    /\ \A x \in OrderIds : x < o => orders[x].exists
    /\ NumRows < MaxRows
    /\ orders' = [orders EXCEPT ![o] = NewOrder]
    /\ UNCHANGED <<drivers, notifs, ordLock, drvLock, proc>>
    /\ UNCHANGED <<hub, creation>>

\* get_drivers_for_notification, later in POST /orders: find_available_drivers
\* keeps drivers that are available and approved; which of them also have the
\* vehicle class, a position, and a distance within the radius and the fan-out
\* limit is the choice of cands.  create_order_notifications inserts one row
\* per candidate.
get_drivers_for_notification(o, cands) ==
    /\ orders[o].exists
    /\ \A d \in Drivers : ~notifs[o][d].exists
    /\ cands # {}
    /\ cands \subseteq {d \in Drivers : DriverIsEligible(d)}
    /\ notifs' = [notifs EXCEPT ![o] = [d \in Drivers |->
                     IF d \in cands THEN NewNotification ELSE notifs[o][d]]]
    /\ UNCHANGED <<orders, drivers, ordLock, drvLock, proc>>
    /\ UNCHANGED <<hub, creation>>

\* POST /webhooks/approval and process_approval_webhook
process_approval_webhook(d, ok) ==
    /\ drivers[d].exists
    /\ drvLock[d] = NULL
    /\ drivers' = [drivers EXCEPT ![d].approval_status =
                      IF ok THEN "approved" ELSE "rejected"]
    /\ drivers' # drivers
    /\ UNCHANGED <<orders, notifs, ordLock, drvLock, proc>>
    /\ UNCHANGED <<hub, creation>>

Next ==
    \/ \E p \in Procs, d \in Drivers, o \in OrderIds : accept_order_begin(p, d, o)
    \/ \E p \in Procs : assign_order_to_first_accepter(p)
    \/ \E p \in Procs : CloseSession(p)
    \/ \E d \in Drivers, o \in OrderIds : reject_order(d, o)
    \/ \E d \in Drivers, s \in DriverStatus : update_driver_status(d, s)
    \/ \E d \in Drivers, o \in OrderIds, s \in OrderStatus : update_order_status(d, o, s)
    \/ \E o \in OrderIds : create_order(o)
    \/ \E o \in OrderIds, cands \in SUBSET Drivers : get_drivers_for_notification(o, cands)
    \/ \E d \in Drivers, ok \in BOOLEAN : process_approval_webhook(d, ok)

Spec == Init /\ [][Next]_vars

\* ------------------------------------------------------------------------
\* Accept requests racing on their own: a fleet on duty, pending orders that
\* were or were not offered, and NumRacers clients that each send one accept.
\* ------------------------------------------------------------------------

RejectedNotification == [exists |-> TRUE, response |-> "rejected", response_at |-> TRUE]

InitRace ==
    /\ \E k \in Drivers, m \in OrderIds :
          /\ k + m <= MaxRows
          /\ drivers = [d \in Drivers |->
                IF d <= k THEN [ApprovedDriver EXCEPT !.status = "available"] ELSE NoDriver]
          /\ orders = [o \in OrderIds |-> IF o <= m THEN NewOrder ELSE NoOrder]
          /\ notifs \in [OrderIds -> [Drivers ->
                {NoNotification, NewNotification, RejectedNotification}]]
          /\ \A o \in OrderIds, d \in Drivers :
                (o > m \/ d > k) => notifs[o][d] = NoNotification
    /\ ordLock = [o \in OrderIds |-> NULL]
    /\ drvLock = [d \in Drivers |-> NULL]
    /\ proc = [p \in 1..NumRacers |-> Idle]
    /\ ConnectionManager_init
    /\ NoCreation

NextRace ==
    \/ \E p \in Procs, d \in Drivers, o \in OrderIds : accept_order_begin(p, d, o)
    \/ \E p \in Procs : assign_order_to_first_accepter(p)
    \/ \E p \in Procs : CloseLastSession(p)

SpecRace == InitRace /\ [][NextRace]_vars

\* ------------------------------------------------------------------------
\* Properties
\* ------------------------------------------------------------------------

ActiveStatus == {"assigned", "in_progress"}
Returned(p) == proc[p].pc \in {"ret", "closed"}
\* the requests of p and q have the rows they name to themselves
Alone(p, q) ==
    \A r \in Procs \ {p, q} :
        \/ proc[r].pc = "idle"
        \/ /\ proc[r].ord \notin {proc[p].ord, proc[q].ord}
           /\ proc[r].me \notin {proc[p].me, proc[q].me}

\* C1 (every order of InitRace that exists is pending, every driver available
\* and approved): two accept requests by different drivers for the same order,
\* both drivers available and approved, no persistence error, no other
\* request on these rows: when both have returned, exactly one returned True
\* and the other False because the order was no longer pending; the order is
\* assigned to the winner's driver, who is busy, and the loser's driver is
\* still available.
C1_ExactlyOneWinner ==
    \A p \in Procs, q \in Procs :
        ( /\ p # q
          /\ Returned(p) /\ Returned(q)
          /\ proc[p].ord = proc[q].ord
          /\ orders[proc[p].ord].exists
          /\ proc[p].me # proc[q].me
          /\ proc[p].cause # "exception" /\ proc[q].cause # "exception"
          /\ Alone(p, q) )
        => \E w \in {p, q} : LET l == IF w = p THEN q ELSE p IN
              /\ proc[w].ret = "True"
              /\ proc[l].ret = "False"
              /\ proc[l].cause = "order_not_pending"
              /\ orders[proc[w].ord].status = "assigned"
              /\ orders[proc[w].ord].driver_id = proc[w].me
              /\ drivers[proc[w].me].status = "busy"
              /\ drivers[proc[l].me].status = "available"

C1_Witness ==
    \E p \in Procs, q \in Procs :
        /\ p # q
        /\ proc[p].pc = "closed" /\ proc[q].pc = "closed"
        /\ proc[p].ord = proc[q].ord
        /\ proc[p].me # proc[q].me
        /\ proc[p].ret = "True"
        /\ proc[q].cause = "order_not_pending"
        /\ Alone(p, q)

\* C8: two accept requests by the same driver for two different pending
\* orders, no other request on these rows: at most one returns True, and the
\* order of a request that returned False is still pending with no driver.
C8_OneOrderPerDriver ==
    \A p \in Procs, q \in Procs :
        ( /\ p # q
          /\ Returned(p) /\ Returned(q)
          /\ proc[p].me = proc[q].me
          /\ proc[p].ord # proc[q].ord
          /\ orders[proc[p].ord].exists /\ orders[proc[q].ord].exists
          /\ Alone(p, q) )
        => /\ ~(proc[p].ret = "True" /\ proc[q].ret = "True")
           /\ \A l \in {p, q} : proc[l].ret = "False" =>
                 /\ orders[proc[l].ord].status = "pending"
                 /\ orders[proc[l].ord].driver_id = NULL

C8_Witness ==
    \E p \in Procs, q \in Procs :
        /\ p # q
        /\ proc[p].pc = "closed" /\ proc[q].pc = "closed"
        /\ proc[p].me = proc[q].me
        /\ proc[p].ord # proc[q].ord
        /\ proc[p].ret = "True"
        /\ proc[q].cause = "driver_not_eligible"
        /\ Alone(p, q)

C3_NoPendingWithDriver ==
    \A o \in OrderIds :
        ~(orders[o].exists /\ orders[o].status = "pending" /\ orders[o].driver_id # NULL)

\* C4: every busy driver is the driver of an order that is assigned or in
\* progress.
C4_BusyHasActiveOrder ==
    \A d \in Drivers :
        (drivers[d].exists /\ drivers[d].status = "busy")
        => \E o \in OrderIds : /\ orders[o].driver_id = d
                               /\ orders[o].status \in ActiveStatus

\* C5: a driver is the driver of at most one order that is assigned or in
\* progress.
C5_AtMostOneActiveOrder ==
    \A d \in Drivers :
        Cardinality({o \in OrderIds : /\ orders[o].driver_id = d
                                      /\ orders[o].status \in ActiveStatus}) <= 1

\* the step in which the accept request of p commits its assignment
Commits(p) == proc[p].pc = "commit" /\ proc'[p].pc = "ret" /\ proc'[p].ret = "True"
\* a step of the accept request of p
Steps(p) == proc'[p] # proc[p] /\ proc[p].pc # "idle" /\ proc[p].pc # "ret"

\* C6: the commit of an assignment leaves the order assigned to the driver
\* with assigned_at set, the driver busy, the driver's notification for the
\* order, if there is one, accepted, and every other notification for the order
\* that had no response expired, both with response_at set; no other step of
\* the request changes a row.
C6_CommitIsComplete ==
    [][\A p \in Procs :
         /\ Commits(p) =>
              LET o == proc[p].ord
                  d == proc[p].me IN
              /\ orders'[o].status = "assigned"
              /\ orders'[o].driver_id = d
              /\ orders'[o].assigned_at
              /\ drivers'[d].status = "busy"
              /\ notifs'[o][d].exists =>
                    /\ notifs'[o][d].response = "accepted"
                    /\ notifs'[o][d].response_at
              /\ \A x \in Drivers \ {d} :
                    (notifs[o][x].exists /\ notifs[o][x].response = "null") =>
                       /\ notifs'[o][x].response = "expired"
                       /\ notifs'[o][x].response_at
         /\ (Steps(p) /\ ~Commits(p)) => UNCHANGED db
      ]_vars

\* C7: a step of an accept request that finds the order missing or not
\* pending, or the driver not available and approved, returns False, and no
\* step of a request that does not commit changes a row.
C7_AlreadyTakenNoEffect ==
    [][\A p \in Procs :
         /\ (proc[p].pc = "lock_order" /\ ~OrderIsPending(proc[p].ord) /\ Steps(p))
               => proc'[p].pc = "ret" /\ proc'[p].ret = "False" /\ UNCHANGED db
         /\ (proc[p].pc = "lock_driver" /\ ~DriverIsEligible(proc[p].me) /\ Steps(p))
               => proc'[p].pc = "ret" /\ proc'[p].ret = "False" /\ UNCHANGED db
         /\ (Steps(p) /\ proc'[p].cause \in {"order_not_pending", "driver_not_eligible"})
               => proc'[p].ret = "False" /\ UNCHANGED db
      ]_vars

C7_Witness ==
    \E p \in Procs :
        /\ proc[p].pc = "ret"
        /\ proc[p].ret = "False"
        /\ proc[p].cause = "driver_not_eligible"
        /\ drivers[proc[p].me].approval_status = "rejected"
        /\ OrderIsPending(proc[p].ord)

\* C9: the step in which an accept request meets a persistence error changes
\* no row, ends the transaction (the request holds no row lock afterwards) and
\* returns False; the steps before it changed no row either.
C9_ErrorRollsBack ==
    [][\A p \in Procs :
         /\ (Steps(p) /\ proc'[p].cause = "exception") =>
               /\ UNCHANGED db
               /\ proc'[p].pc = "ret"
               /\ proc'[p].ret = "False"
               /\ \A o \in OrderIds : ordLock'[o] # p
               /\ \A d \in Drivers : drvLock'[d] # p
         /\ (Steps(p) /\ proc'[p].pc # "ret") => UNCHANGED db
      ]_vars

C9_Witness ==
    \E p \in Procs :
        /\ proc[p].pc = "ret"
        /\ proc[p].cause = "exception"
        /\ proc[p].own
        /\ proc[p].others # {}
        /\ OrderIsPending(proc[p].ord)
        /\ DriverIsEligible(proc[p].me)

C11_OneAcceptedRecord ==
    \A o \in OrderIds :
        LET accepted == {d \in Drivers : /\ notifs[o][d].exists
                                         /\ notifs[o][d].response = "accepted"} IN
        /\ Cardinality(accepted) <= 1
        /\ orders[o].assigned_at => accepted = {orders[o].driver_id}

\* C12: a step of reject_order for driver d and order o changes nothing but
\* the response and response_at of d's own notification for o: no order, no
\* driver, no lock, no request in flight and no other notification changes, no
\* notification is created or deleted, and without a notification of d for o
\* nothing changes at all.
C12_RejectFrame ==
    [][\A d \in Drivers, o \in OrderIds :
         reject_order(d, o) =>
            /\ UNCHANGED <<orders, drivers, ordLock, drvLock, proc>>
            /\ UNCHANGED hub
            /\ \A o2 \in OrderIds, d2 \in Drivers :
                  (o2 # o \/ d2 # d \/ ~notifs[o][d].exists)
                     => notifs'[o2][d2] = notifs[o2][d2]
            /\ notifs'[o][d].exists = notifs[o][d].exists
      ]_vars

C12_Witness ==
    \E o \in OrderIds, d \in Drivers, d2 \in Drivers :
        /\ d2 # d
        /\ notifs[o][d].exists /\ notifs[o][d].response = "rejected"
        /\ notifs[o][d2].exists /\ notifs[o][d2].response = "null"
        /\ OrderIsPending(o) /\ orders[o].driver_id = NULL
        /\ DriverIsEligible(d)

\* C13: in every reachable state and for every order and driver, rejecting
\* twice leaves the same notifications and the same responses as rejecting once
\* (orders and drivers are not written by reject_order at all, see C12; the
\* second call stamps response_at again, which the claim does not count as
\* observable).
C13_RejectIdempotent ==
    \A o \in OrderIds, d \in Drivers :
        LET once == reject_order_rows(notifs, o, d)
            twice == reject_order_rows(once, o, d) IN
        \A o2 \in OrderIds, d2 \in Drivers :
            /\ twice[o2][d2].exists = once[o2][d2].exists
            /\ twice[o2][d2].response = once[o2][d2].response

C13_Witness ==
    \E o \in OrderIds, d \in Drivers :
        /\ notifs[o][d].exists /\ notifs[o][d].response = "rejected"
        /\ reject_order_rows(notifs, o, d) = notifs
        /\ \E o2 \in OrderIds, d2 \in Drivers :
              /\ notifs[o2][d2].exists
              /\ reject_order_rows(notifs, o2, d2) # notifs

\* C14: a step of reject_order for a notification whose response is already
\* accepted or expired changes nothing.
C14_LateRejectIsNoOp ==
    [][\A d \in Drivers, o \in OrderIds :
         ( /\ reject_order(d, o)
           /\ notifs[o][d].exists
           /\ notifs[o][d].response \in {"accepted", "expired"} )
         => UNCHANGED vars
      ]_vars

\* the moves of an order's status that the lifecycle allows
Lifecycle ==
    {<<"pending", "assigned">>, <<"assigned", "in_progress">>,
     <<"in_progress", "delivered">>,
     <<"pending", "cancelled">>, <<"assigned", "cancelled">>,
     <<"in_progress", "cancelled">>}

\* C15: every step that changes the status of an order moves it along
\* pending -> assigned -> in_progress -> delivered, or to cancelled from a
\* status before delivered.
C15_StatusMovesForward ==
    [][\A o \in OrderIds :
         (orders[o].exists /\ orders'[o].status # orders[o].status)
            => <<orders[o].status, orders'[o].status>> \in Lifecycle
      ]_vars

\* ------------------------------------------------------------------------
\* Notification Hub (ConnectionManager).  The hub lives in one event loop:
\* code between two awaits runs without interruption, and other coroutines
\* run at an await.  Absent keys of the two dictionaries are NULL.
\* ------------------------------------------------------------------------

\* ConnectionManager.disconnect on the maps a (active_connections) and dc
\* (driver_connections): the maps afterwards, and whether it raised.
\* del active_connections[driver_id] raises KeyError when the driver has no
\* key, before driver_connections is touched.
disconnect(a, dc, websocket) ==
    IF dc[websocket] # NULL
    THEN IF a[dc[websocket]] # NULL
         THEN [active_connections |-> [a EXCEPT ![dc[websocket]] = NULL],
               driver_connections |-> [dc EXCEPT ![websocket] = NULL],
               raised |-> FALSE]
         ELSE [active_connections |-> a, driver_connections |-> dc, raised |-> TRUE]
    ELSE [active_connections |-> a, driver_connections |-> dc, raised |-> FALSE]

\* handle_websocket_connection, first part: authenticate_websocket returns the
\* id of the approved driver the token belongs to, then manager.connect is
\* called and waits in websocket.accept()
authenticate_websocket(c, d) ==
    /\ handler[c].pc = "new"
    /\ \A x \in Conns : x < c => handler[x].pc # "new"
    /\ drivers[d].exists /\ drivers[d].approval_status = "approved"
    /\ handler' = [handler EXCEPT ![c] = [pc |-> "accept", driver_id |-> d]]
    /\ UNCHANGED <<active_connections, driver_connections, sender, wire>>
    /\ UNCHANGED <<dispatch, creation>>

\* connect that sends to a new connection what its driver missed
connect_Flush(c) ==
    /\ handler[c].pc = "accept"
    /\ active_connections' = [active_connections EXCEPT ![handler[c].driver_id] = c]
    /\ driver_connections' = [driver_connections EXCEPT ![c] = handler[c].driver_id]
    /\ handler' = [handler EXCEPT ![c].pc = "open"]
    /\ wire' = [wire EXCEPT ![c] = {m \in Msgs : /\ sender[m].pc = "done"
                                                 /\ sender[m].ret = "False"
                                                 /\ sender[m].driver_id = handler[c].driver_id}]
    /\ UNCHANGED sender
    /\ UNCHANGED <<dispatch, creation>>

\* ConnectionManager.connect after websocket.accept(): both maps are written
connect(c) ==
    /\ handler[c].pc = "accept"
    /\ active_connections' = [active_connections EXCEPT ![handler[c].driver_id] = c]
    /\ driver_connections' = [driver_connections EXCEPT ![c] = handler[c].driver_id]
    /\ handler' = [handler EXCEPT ![c].pc = "open"]
    /\ UNCHANGED <<sender, wire>>
    /\ UNCHANGED <<dispatch, creation>>

\* handle_websocket_connection, the end: receive_text raises when the client
\* goes away, the except branch calls manager.disconnect(websocket); a
\* KeyError raised there leaves the handler
receive_text_raises(c) ==
    /\ handler[c].pc = "open"
    /\ LET r == disconnect(active_connections, driver_connections, c) IN
       /\ active_connections' = r.active_connections
       /\ driver_connections' = r.driver_connections
       /\ handler' = [handler EXCEPT ![c].pc = IF r.raised THEN "raised" ELSE "ended"]
    /\ UNCHANGED <<sender, wire>>
    /\ UNCHANGED <<dispatch, creation>>

\* send_personal_message(message m, driver_id d) up to its await: without a
\* key for the driver it returns False; with one it takes the websocket and
\* waits in websocket.send_text
send_personal_message(m, d) ==
    /\ sender[m].pc = "idle"
    /\ \A x \in Msgs : x < m => sender[x].pc # "idle"
    /\ sender' = [sender EXCEPT ![m] =
          IF active_connections[d] # NULL
          THEN [pc |-> "send_text", driver_id |-> d,
                websocket |-> active_connections[d], ret |-> "None"]
          ELSE [pc |-> "done", driver_id |-> d, websocket |-> NULL, ret |-> "False"]]
    /\ UNCHANGED <<active_connections, driver_connections, handler, wire>>
    /\ UNCHANGED <<dispatch, creation>>

\* websocket.send_text returns: the message is on the wire of a socket whose
\* client is still there; return True
send_text_returns(m) ==
    /\ sender[m].pc = "send_text"
    /\ handler[sender[m].websocket].pc = "open"
    /\ wire' = [wire EXCEPT ![sender[m].websocket] = @ \cup {m}]
    /\ sender' = [sender EXCEPT ![m].pc = "done", ![m].ret = "True"]
    /\ UNCHANGED <<active_connections, driver_connections, handler>>
    /\ UNCHANGED <<dispatch, creation>>

\* websocket.send_text raises (closed socket, broken pipe): the except branch
\* calls self.disconnect(websocket) and returns False; a KeyError raised by
\* disconnect leaves send_personal_message
send_text_raises(m) ==
    /\ sender[m].pc = "send_text"
    /\ LET r == disconnect(active_connections, driver_connections, sender[m].websocket) IN
       /\ active_connections' = r.active_connections
       /\ driver_connections' = r.driver_connections
       /\ sender' = [sender EXCEPT ![m].pc = "done",
                                   ![m].ret = IF r.raised THEN "KeyError" ELSE "False"]
    /\ UNCHANGED <<handler, wire>>
    /\ UNCHANGED <<dispatch, creation>>

\* the hub on its own: an approved fleet, no order, no request in flight
InitHub ==
    /\ orders = [o \in OrderIds |-> NoOrder]
    /\ drivers = [d \in Drivers |-> ApprovedDriver]
    /\ notifs = [o \in OrderIds |-> [d \in Drivers |-> NoNotification]]
    /\ ordLock = [o \in OrderIds |-> NULL]
    /\ drvLock = [d \in Drivers |-> NULL]
    /\ proc = [p \in 1..NumWorkers |-> Idle]
    /\ ConnectionManager_init
    /\ NoCreation

NextHub ==
    \/ \E c \in Conns, d \in Drivers : authenticate_websocket(c, d)
    \/ \E c \in Conns : connect(c)
    \/ \E c \in Conns : receive_text_raises(c)
    \/ \E m \in Msgs, d \in Drivers : send_personal_message(m, d)
    \/ \E m \in Msgs : send_text_returns(m)
    \/ \E m \in Msgs : send_text_raises(m)

SpecHub == InitHub /\ [][NextHub]_vars

\* C16: the two maps are inverse of each other: driver d has websocket c in
\* active_connections exactly when c has driver d in driver_connections.
C16_MapsInverse ==
    \A d \in Drivers, c \in Conns :
        active_connections[d] = c <=> driver_connections[c] = d

\* the step in which connect registers websocket c
Registers(c) == handler[c].pc = "accept" /\ handler'[c].pc = "open"
\* the step in which send_personal_message for message m is called
Sends(m) == sender[m].pc = "idle" /\ sender'[m].pc # "idle"

\* C17: when websocket c is registered for a driver, c is the driver's
\* websocket in active_connections and no other websocket is left in
\* driver_connections for that driver; a send for a driver takes the websocket
\* registered last for it.
C17_SecondConnectionSupersedes ==
    [][/\ \A c \in Conns : Registers(c) =>
             LET d == handler[c].driver_id IN
             /\ active_connections'[d] = c
             /\ \A c1 \in Conns \ {c} : driver_connections'[c1] # d
       /\ \A m \in Msgs : (Sends(m) /\ sender'[m].websocket # NULL) =>
             driver_connections[sender'[m].websocket] = sender'[m].driver_id
      ]_vars

\* C18: when a handler ends and calls disconnect for its websocket c, the call
\* does not raise, c is in neither map afterwards, and a second call, like a
\* call for a websocket that was never registered, does not raise and leaves
\* the maps as they are.
C18_UnregisterIdempotent ==
    [][\A c \in Conns :
         /\ (handler[c].pc = "open" /\ handler'[c].pc # "open") =>
               LET again == disconnect(active_connections', driver_connections', c) IN
               /\ handler'[c].pc = "ended"
               /\ driver_connections'[c] = NULL
               /\ \A d \in Drivers : active_connections'[d] # c
               /\ ~again.raised
               /\ again.active_connections = active_connections'
               /\ again.driver_connections = driver_connections'
         /\ handler[c].pc = "new" =>
               LET never == disconnect(active_connections, driver_connections, c) IN
               /\ ~never.raised
               /\ never.active_connections = active_connections
               /\ never.driver_connections = driver_connections
      ]_vars

\* C19: a send for a driver without a key in active_connections returns
\* False at once, writes to no websocket and leaves the hub as it is; a message
\* whose send returned False is on no wire, now or later; every message is on
\* at most one wire, that of the websocket its send took.
C19_OfflineSendIsDropped ==
    /\ [](\A m \in Msgs :
            /\ (sender[m].pc = "done" /\ sender[m].ret = "False")
                  => \A c \in Conns : m \notin wire[c]
            /\ \A c \in Conns : m \in wire[c] =>
                  /\ sender[m].websocket = c
                  /\ sender[m].ret = "True")
    /\ [][\A m \in Msgs, d \in Drivers :
            (send_personal_message(m, d) /\ active_connections[d] = NULL) =>
               /\ sender'[m].pc = "done" /\ sender'[m].ret = "False"
               /\ sender'[m].websocket = NULL
               /\ UNCHANGED <<active_connections, driver_connections, handler, wire>>
         ]_vars

C19_Witness ==
    \E m \in Msgs, c \in Conns :
        /\ sender[m].pc = "done" /\ sender[m].ret = "False"
        /\ sender[m].websocket = NULL
        /\ handler[c].pc = "open"
        /\ handler[c].driver_id = sender[m].driver_id
        /\ active_connections[sender[m].driver_id] = c
        /\ \E m2 \in Msgs : m2 # m /\ m2 \in wire[c]

\* C20: when send_text raises in the send of message m to driver d, the send
\* returns False and afterwards d has no websocket in active_connections and
\* no websocket in driver_connections has driver d.
C20_FailedWriteUnregisters ==
    [][\A m \in Msgs :
         (sender[m].pc = "send_text" /\ sender'[m].pc = "done" /\ sender'[m].ret # "True") =>
            LET d == sender[m].driver_id IN
            /\ sender'[m].ret = "False"
            /\ active_connections'[d] = NULL
            /\ \A c \in Conns : driver_connections'[c] # d
      ]_vars

\* ------------------------------------------------------------------------
\* notify_drivers_about_order: one send_personal_message after the other for
\* the entries of driver_ids.  The send for entry i is message i.
\* ------------------------------------------------------------------------

\* the loop reaches entry i when the sends for the entries before it have
\* returned; an exception raised by one of them leaves the loop
notify_drivers_about_order(i) ==
    /\ i \in 1..Len(driver_ids)
    /\ \A x \in 1..(i - 1) : sender[x].pc = "done" /\ sender[x].ret \in {"True", "False"}
    /\ send_personal_message(i, driver_ids[i])

\* successful_notifications: the drivers whose send returned True, in the
\* order of driver_ids
successful_notifications ==
    LET idx == SelectSeq([i \in 1..Len(driver_ids) |-> i],
                         LAMBDA i : sender[i].ret = "True") IN
    [k \in 1..Len(idx) |-> driver_ids[idx[k]]]

\* lists of different drivers, as find_available_drivers returns them
DriverIdLists ==
    {s \in UNION {[1..n -> Drivers] : n \in 1..MaxMsgs} :
        \A i \in DOMAIN s, j \in DOMAIN s : i # j => s[i] # s[j]}

InitNotify ==
    /\ orders = [o \in OrderIds |-> NoOrder]
    /\ drivers = [d \in Drivers |-> ApprovedDriver]
    /\ notifs = [o \in OrderIds |-> [d \in Drivers |-> NoNotification]]
    /\ ordLock = [o \in OrderIds |-> NULL]
    /\ drvLock = [d \in Drivers |-> NULL]
    /\ proc = [p \in 1..NumWorkers |-> Idle]
    /\ ConnectionManager_init
    /\ fleet = <<>>
    /\ db_order = [weight_kg |-> None, value |-> None]
    /\ selection = NoSelection
    /\ driver_ids \in DriverIdLists

NextNotify ==
    \/ \E c \in Conns, d \in Drivers : authenticate_websocket(c, d)
    \/ \E c \in Conns : connect(c)
    \/ \E c \in Conns : receive_text_raises(c)
    \/ \E i \in Msgs : notify_drivers_about_order(i)
    \/ \E m \in Msgs : send_text_returns(m)
    \/ \E m \in Msgs : send_text_raises(m)

SpecNotify == InitNotify /\ [][NextNotify]_vars

\* C21: every send of notify_drivers_about_order returns True or False, so
\* the loop goes on to the next driver of the list whatever happened to the
\* drivers before, and the call returns the listed drivers whose send returned
\* True.
C21_EveryDriverAttempted ==
    \A i \in 1..Len(driver_ids) :
        sender[i].pc = "done" => sender[i].ret \in {"True", "False"}

\* C22: a send whose write fails unregisters only the websocket it wrote to:
\* the websocket another connect registered for the driver in the meantime
\* stays in active_connections.
C22_FailedSendKeepsNewConnection ==
    [][\A m \in Msgs :
         (sender[m].pc = "send_text" /\ sender'[m].pc = "done" /\ sender'[m].ret # "True") =>
            \A d \in Drivers :
               (active_connections[d] # NULL /\ active_connections[d] # sender[m].websocket)
                  => active_connections'[d] = active_connections[d]
      ]_vars

\* ------------------------------------------------------------------------
\* Candidate selection (get_drivers_for_notification) and the distance
\* estimator (OSRMClient).  Python floats are modelled as exact fractions
\* n / d with d > 0.
\* ------------------------------------------------------------------------

Rat(n, d) == [n |-> n, d |-> d]
RatLeq(a, b) == a.n * b.d <= b.n * a.d
RatEq(a, b) == a.n * b.d = b.n * a.d
RatTimes(a, k) == [n |-> a.n * k, d |-> a.d]

\* the ladder with the first rung at weight < 5
get_best_vehicle_type_for_order_Exclusive(weight_kg, value) ==
    LET w == IF weight_kg = None THEN Rat(1, 1) ELSE weight_kg IN
    IF ~RatLeq(Rat(5, 1), w) THEN "motorcycle"
    ELSE IF RatLeq(w, Rat(50, 1)) THEN "car"
    ELSE IF RatLeq(w, Rat(200, 1)) THEN "van"
    ELSE "truck"

\* get_best_vehicle_type_for_order: a missing weight counts as 1.0 kg; value
\* is not read
get_best_vehicle_type_for_order(weight_kg, value) ==
    LET w == IF weight_kg = None THEN Rat(1, 1) ELSE weight_kg IN
    IF RatLeq(w, Rat(5, 1)) THEN "motorcycle"
    ELSE IF RatLeq(w, Rat(50, 1)) THEN "car"
    ELSE IF RatLeq(w, Rat(200, 1)) THEN "van"
    ELSE "truck"

\* get_distance_and_duration with the duration left in seconds
get_distance_and_duration_Seconds(response) ==
    IF response.raises THEN None
    ELSE IF response.code # "Ok" \/ response.routes = <<>> THEN None
    ELSE LET route == response.routes[1] IN
         [distance_km |-> Rat(route.distance, 1000),
          duration_minutes |-> Rat(route.duration, 1)]

\* get_distance_and_duration, given what the routing oracle answers for the
\* pair: raises for a timeout, a network or HTTP error or a body that is not
\* the expected JSON, otherwise the body's code and routes (distance in
\* metres, duration in seconds).  None unless the code is Ok and there is a
\* route.
get_distance_and_duration(response) ==
    IF response.raises THEN None
    ELSE IF response.code # "Ok" \/ response.routes = <<>> THEN None
    ELSE LET route == response.routes[1] IN
         [distance_km |-> Rat(route.distance, 1000),
          duration_minutes |-> Rat(route.duration, 60)]

\* calculate_drivers_distances that gives up on a driver the oracle fails for
calculate_drivers_distances_SkipFailed(driver_locations) ==
    LET ok == SelectSeq(driver_locations,
                  LAMBDA loc : get_distance_and_duration(loc.response) # None) IN
    [i \in 1..Len(ok) |->
        LET route_info == get_distance_and_duration(ok[i].response) IN
        [driver_id |-> ok[i].id,
         distance_km |-> route_info.distance_km,
         duration_minutes |-> route_info.duration_minutes]]

\* calculate_drivers_distances: one result per driver location, in order; the
\* oracle's estimate, or without one the haversine distance and 2 minutes per
\* km
calculate_drivers_distances(driver_locations) ==
    [i \in 1..Len(driver_locations) |->
        LET loc == driver_locations[i]
            route_info == get_distance_and_duration(loc.response) IN
        IF route_info # None
        THEN [driver_id |-> loc.id,
              distance_km |-> route_info.distance_km,
              duration_minutes |-> route_info.duration_minutes]
        ELSE [driver_id |-> loc.id,
              distance_km |-> loc.haversine,
              duration_minutes |-> RatTimes(loc.haversine, 2)]]

\* the rows of the drivers table that pass the filter of find_available_drivers
PassesFilter(driver, vehicle_type) ==
    /\ driver.status = "available"
    /\ driver.approval_status = "approved"
    /\ driver.vehicle_type = vehicle_type
    /\ driver.current_latitude # "None"
    /\ driver.current_longitude # "None"

\* list.sort(key = distance_km): stable, so an entry goes behind the entries
\* that are not farther
RECURSIVE SortByDistance(_)
SortByDistance(s) ==
    IF s = <<>> THEN <<>>
    ELSE LET t == SortByDistance(SubSeq(s, 1, Len(s) - 1))
             x == s[Len(s)]
             k == Cardinality({i \in 1..Len(t) : RatLeq(t[i].distance_km, x.distance_km)}) IN
         SubSeq(t, 1, k) \o <<x>> \o SubSeq(t, k + 1, Len(t))

\* find_available_drivers without suitable_drivers.sort
find_available_drivers_Unsorted(rows, vehicle_type) ==
    LET found == SelectSeq(rows, LAMBDA driver : PassesFilter(driver, vehicle_type))
        distances == calculate_drivers_distances(found)
        suitable_drivers == SelectSeq(distances,
            LAMBDA info : RatLeq(info.distance_km, Rat(MAX_DISTANCE_KM, 1))) IN
    IF found = <<>> THEN <<>>
    ELSE SubSeq(suitable_drivers, 1,
                IF Len(suitable_drivers) < MAX_DRIVERS_TO_NOTIFY
                THEN Len(suitable_drivers) ELSE MAX_DRIVERS_TO_NOTIFY)

\* find_available_drivers with the status left out of the query
find_available_drivers_AnyStatus(rows, vehicle_type) ==
    LET found == SelectSeq(rows, LAMBDA driver :
                     PassesFilter([driver EXCEPT !.status = "available"], vehicle_type))
        distances == calculate_drivers_distances(found)
        suitable_drivers == SelectSeq(distances,
            LAMBDA info : RatLeq(info.distance_km, Rat(MAX_DISTANCE_KM, 1))) IN
    IF found = <<>> THEN <<>>
    ELSE SubSeq(SortByDistance(suitable_drivers), 1,
                IF Len(suitable_drivers) < MAX_DRIVERS_TO_NOTIFY
                THEN Len(suitable_drivers) ELSE MAX_DRIVERS_TO_NOTIFY)

\* find_available_drivers with the radius test left out
find_available_drivers_AnyDistance(rows, vehicle_type) ==
    LET found == SelectSeq(rows, LAMBDA driver : PassesFilter(driver, vehicle_type))
        suitable_drivers == calculate_drivers_distances(found) IN
    IF found = <<>> THEN <<>>
    ELSE SubSeq(SortByDistance(suitable_drivers), 1,
                IF Len(suitable_drivers) < MAX_DRIVERS_TO_NOTIFY
                THEN Len(suitable_drivers) ELSE MAX_DRIVERS_TO_NOTIFY)

\* find_available_drivers over the rows of the drivers table: the query, the
\* distances, the radius, the sort and the fan-out limit
find_available_drivers(rows, vehicle_type) ==
    LET found == SelectSeq(rows, LAMBDA driver : PassesFilter(driver, vehicle_type))
        distances == calculate_drivers_distances(found)
        suitable_drivers == SelectSeq(distances,
            LAMBDA info : RatLeq(info.distance_km, Rat(MAX_DISTANCE_KM, 1))) IN
    IF found = <<>> THEN <<>>
    ELSE SubSeq(SortByDistance(suitable_drivers), 1,
                IF Len(suitable_drivers) < MAX_DRIVERS_TO_NOTIFY
                THEN Len(suitable_drivers) ELSE MAX_DRIVERS_TO_NOTIFY)

\* create_order_notifications that stores no distance
create_order_notifications_NoDistance(driver_distances) ==
    [i \in 1..Len(driver_distances) |->
        [driver_id |-> driver_distances[i].driver_id,
         distance_km |-> None,
         response |-> "null"]]

\* create_order_notifications: one OrderNotification per entry, response NULL
create_order_notifications(driver_distances) ==
    [i \in 1..Len(driver_distances) |->
        [driver_id |-> driver_distances[i].driver_id,
         distance_km |-> driver_distances[i].distance_km,
         response |-> "null"]]

\* get_drivers_for_notification for the order of db_order over the rows of
\* fleet: the vehicle class, the suitable drivers, and one notification per
\* suitable driver if there is any
get_drivers_for_notification_fleet ==
    /\ selection.pc = "start"
    /\ LET vehicle_type == get_best_vehicle_type_for_order(db_order.weight_kg, db_order.value)
           suitable_drivers == find_available_drivers(fleet, vehicle_type) IN
       selection' = [pc |-> "selected",
                     suitable_drivers |-> suitable_drivers,
                     notifications |-> IF suitable_drivers # <<>>
                                       THEN create_order_notifications(suitable_drivers)
                                       ELSE <<>>]
    /\ UNCHANGED <<fleet, db_order, driver_ids>>
    /\ UNCHANGED <<dispatch, hub>>

\* create_order_notify that tells the whole fleet when nobody is suitable
create_order_notify_Broadcast ==
    /\ selection.pc = "selected"
    /\ driver_ids' = IF selection.suitable_drivers # <<>>
                     THEN [i \in 1..Len(selection.suitable_drivers) |->
                              selection.suitable_drivers[i].driver_id]
                     ELSE [i \in 1..Len(fleet) |-> fleet[i].id]
    /\ selection' = [selection EXCEPT !.pc = "notify"]
    /\ UNCHANGED <<fleet, db_order>>
    /\ UNCHANGED <<dispatch, hub>>

\* create_order after get_drivers_for_notification: with suitable drivers
\* their ids go to notify_drivers_about_order, without any the endpoint
\* returns
create_order_notify ==
    /\ selection.pc = "selected"
    /\ IF selection.suitable_drivers # <<>>
       THEN /\ driver_ids' = [i \in 1..Len(selection.suitable_drivers) |->
                                 selection.suitable_drivers[i].driver_id]
            /\ selection' = [selection EXCEPT !.pc = "notify"]
       ELSE /\ driver_ids' = driver_ids
            /\ selection' = [selection EXCEPT !.pc = "return"]
    /\ UNCHANGED <<fleet, db_order>>
    /\ UNCHANGED <<dispatch, hub>>

\* ---- inputs of candidate selection ----
DriverRows ==
    [status : DriverStatus, approval_status : ApprovalStatus, vehicle_type : VehicleType,
     current_latitude : {"None", "set"}, current_longitude : {"None", "set"}]
\* an approved motorcycle driver on duty with a known position
OnDuty ==
    [status |-> "available", approval_status |-> "approved", vehicle_type |-> "motorcycle",
     current_latitude |-> "set", current_longitude |-> "set"]
\* rows that differ from OnDuty in at most one column
MixedRows ==
    {r \in DriverRows : Cardinality({f \in DOMAIN r : r[f] # OnDuty[f]}) <= 1}

\* answers of the routing oracle
Ok(distance, duration) ==
    [raises |-> FALSE, code |-> "Ok",
     routes |-> <<[distance |-> distance, duration |-> duration]>>]
Raises == [raises |-> TRUE, code |-> "", routes |-> <<>>]
NoRoute == [raises |-> FALSE, code |-> "NoRoute", routes |-> <<>>]
OkEmpty == [raises |-> FALSE, code |-> "Ok", routes |-> <<>>]

\* per driver: the oracle's answer for pickup -> driver and the haversine
\* distance in km of the same pair
MixedEstimates ==
    {[response |-> Ok(2000, 300), haversine |-> Rat(3, 2)],
     [response |-> Ok(60000, 3600), haversine |-> Rat(40, 1)],
     [response |-> Raises, haversine |-> Rat(17, 2)],
     [response |-> NoRoute, haversine |-> Rat(60, 1)]}
RankEstimates ==
    {[response |-> Ok(2000, 300), haversine |-> Rat(3, 2)],
     [response |-> Ok(8000, 900), haversine |-> Rat(6, 1)],
     [response |-> Ok(50000, 3000), haversine |-> Rat(40, 1)],
     [response |-> Ok(60000, 3600), haversine |-> Rat(40, 1)],
     [response |-> OkEmpty, haversine |-> Rat(10, 1)]}

\* a fleet: rows with ids 1, 2, ... joined with the estimates for them
Fleets(rows, estimates, lengths) ==
    UNION {{[i \in 1..n |-> [id |-> i] @@ r[i] @@ e[i]] :
                r \in [1..n -> rows], e \in [1..n -> estimates]} : n \in lengths}

\* weight_kg and value of an order: Optional[float], >= 0
Weights ==
    {None, Rat(5, 1), Rat(501, 100), Rat(50, 1), Rat(5001, 100), Rat(200, 1), Rat(401, 2)}
Values == {None, Rat(1000, 1)}

\* the hub and the tables play no part; the fleet is either a few drivers of
\* every kind, for an order of any weight, or many on-duty drivers at
\* different distances
InitSelect ==
    /\ orders = [o \in OrderIds |-> NoOrder]
    /\ drivers = [d \in Drivers |-> ApprovedDriver]
    /\ notifs = [o \in OrderIds |-> [d \in Drivers |-> NoNotification]]
    /\ ordLock = [o \in OrderIds |-> NULL]
    /\ drvLock = [d \in Drivers |-> NULL]
    /\ proc = [p \in 1..NumWorkers |-> Idle]
    /\ ConnectionManager_init
    /\ selection = NoSelection
    /\ driver_ids = <<>>
    /\ \/ /\ fleet \in Fleets(MixedRows, MixedEstimates, 0..MaxMixedFleet)
          /\ db_order \in [weight_kg : Weights, value : Values]
       \/ /\ fleet \in Fleets({OnDuty}, RankEstimates, 3..NumFleet)
          /\ db_order = [weight_kg |-> None, value |-> None]

NextSelect ==
    \/ get_drivers_for_notification_fleet
    \/ create_order_notify

SpecSelect == InitSelect /\ [][NextSelect]_vars

\* ---- what the claims about candidate selection speak of ----
\* the oracle has no estimate for the driver
OracleFails(driver) ==
    driver.response.raises \/ driver.response.code # "Ok" \/ driver.response.routes = <<>>
\* the distance in km the estimator is to report for the driver
EstimatedKm(driver) ==
    IF OracleFails(driver) THEN driver.haversine
    ELSE Rat(driver.response.routes[1].distance, 1000)
WithinRadius(driver) == RatLeq(EstimatedKm(driver), Rat(50, 1))
\* the vehicle class the order needs
RequiredClass == get_best_vehicle_type_for_order(db_order.weight_kg, db_order.value)
\* the drivers of the fleet that are on duty with the class the order needs
Filtered == {i \in 1..Len(fleet) : PassesFilter(fleet[i], RequiredClass)}
Selected == selection.pc # "start"
SelectedIds == {selection.suitable_drivers[k].driver_id : k \in 1..Len(selection.suitable_drivers)}

\* C23: when no driver passes the filter, or every driver that passes it is
\* farther than the radius, the list returned is empty, no notification is
\* created, and create_order returns without a call of
\* notify_drivers_about_order.
C23_NoCandidateNoOffer ==
    (Selected /\ \A i \in Filtered : ~WithinRadius(fleet[i])) =>
        /\ selection.suitable_drivers = <<>>
        /\ selection.notifications = <<>>
        /\ selection.pc \in {"selected", "return"}
        /\ driver_ids = <<>>

C23_Witness ==
    /\ selection.pc = "return"
    /\ Filtered # {}
    /\ \A i \in Filtered : ~WithinRadius(fleet[i])
    /\ driver_ids = <<>>

\* C24: every driver in the list returned, in the notifications and in the
\* list given to the hub is, in the rows read, available, approved, of the
\* class the order's weight requires and has a latitude and a longitude.
C24_OnlyEligibleDrivers ==
    Selected =>
        \A i \in SelectedIds
              \cup {selection.notifications[k].driver_id : k \in 1..Len(selection.notifications)}
              \cup {driver_ids[k] : k \in 1..Len(driver_ids)} :
            /\ i \in 1..Len(fleet)
            /\ fleet[i].status = "available"
            /\ fleet[i].approval_status = "approved"
            /\ fleet[i].vehicle_type = RequiredClass
            /\ fleet[i].current_latitude # "None"
            /\ fleet[i].current_longitude # "None"

C24_Witness ==
    /\ selection.pc = "notify"
    /\ Len(fleet) = 2
    /\ fleet[1].status = "busy" /\ ~OracleFails(fleet[1]) /\ WithinRadius(fleet[1])
    /\ fleet[2].vehicle_type = "car"
    /\ driver_ids = <<2>>

\* C25: no driver in the list returned is farther than 50 km; unless the
\* fan-out limit cuts the list, every driver that passes the filter and is
\* within 50 km is in it; of three drivers at 2 km, 8 km and 60 km the list
\* is the one at 2 km, then the one at 8 km.
C25_RadiusIsRespected ==
    Selected =>
        /\ \A k \in 1..Len(selection.suitable_drivers) :
              RatLeq(selection.suitable_drivers[k].distance_km, Rat(50, 1))
        /\ Len(selection.suitable_drivers) < MAX_DRIVERS_TO_NOTIFY =>
              \A i \in Filtered : WithinRadius(fleet[i]) => i \in SelectedIds
        /\ ( /\ Len(fleet) = 3
             /\ Filtered = {1, 2, 3}
             /\ {EstimatedKm(fleet[i]) : i \in 1..3} = {Rat(2000, 1000), Rat(8000, 1000), Rat(60000, 1000)} )
           => /\ Len(selection.suitable_drivers) = 2
              /\ EstimatedKm(fleet[selection.suitable_drivers[1].driver_id]) = Rat(2000, 1000)
              /\ EstimatedKm(fleet[selection.suitable_drivers[2].driver_id]) = Rat(8000, 1000)

C25_Witness ==
    /\ selection.pc = "notify"
    /\ Len(fleet) = 3
    /\ EstimatedKm(fleet[1]) = Rat(60000, 1000)
    /\ EstimatedKm(fleet[2]) = Rat(8000, 1000)
    /\ EstimatedKm(fleet[3]) = Rat(2000, 1000)
    /\ driver_ids = <<3, 2>>

\* C26: the list returned is in order of non-decreasing distance, has at most
\* MAX_DRIVERS_TO_NOTIFY entries, and no driver that passes the filter, is
\* within the radius and is left out is strictly closer than a driver in the
\* list.
C26_NearestFirst ==
    Selected =>
        LET L == selection.suitable_drivers IN
        /\ \A j \in 1..Len(L), k \in 1..Len(L) :
              j < k => RatLeq(L[j].distance_km, L[k].distance_km)
        /\ Len(L) <= 5
        /\ \A i \in Filtered \ SelectedIds : WithinRadius(fleet[i]) =>
              \A k \in 1..Len(L) : RatLeq(L[k].distance_km, EstimatedKm(fleet[i]))

C26_Witness ==
    /\ selection.pc = "notify"
    /\ Len(fleet) = 6
    /\ \A i \in 1..6 : WithinRadius(fleet[i])
    /\ EstimatedKm(fleet[1]) = Rat(50000, 1000)
    /\ EstimatedKm(fleet[6]) = Rat(2000, 1000)
    /\ Len(driver_ids) = 5
    /\ driver_ids[1] = 6
    /\ 1 \notin SelectedIds

\* C27: the class follows the ladder on the weight alone: no weight or at most
\* 5 kg motorcycle, above 5 up to 50 car, above 50 up to 200 van, above 200
\* truck; the order's value makes no difference; the drivers selected are of
\* that class.
C27_ClassFollowsWeight ==
    LET w == db_order.weight_kg
        class == get_best_vehicle_type_for_order(w, db_order.value) IN
    /\ (w = None \/ RatLeq(w, Rat(5, 1))) => class = "motorcycle"
    /\ (w # None /\ ~RatLeq(w, Rat(5, 1)) /\ RatLeq(w, Rat(50, 1))) => class = "car"
    /\ (w # None /\ ~RatLeq(w, Rat(50, 1)) /\ RatLeq(w, Rat(200, 1))) => class = "van"
    /\ (w # None /\ ~RatLeq(w, Rat(200, 1))) => class = "truck"
    /\ \A v \in Values : get_best_vehicle_type_for_order(w, v) = class
    /\ Selected => \A i \in SelectedIds : fleet[i].vehicle_type = class

C27_Witness ==
    /\ selection.pc = "notify"
    /\ db_order.weight_kg = Rat(5, 1)
    /\ db_order.value # None
    /\ \E i \in SelectedIds : fleet[i].vehicle_type = "motorcycle"
    /\ \E i \in 1..Len(fleet) : fleet[i].vehicle_type = "car" /\ i \notin SelectedIds

\* C28: the notifications created are one per entry of the list returned, for
\* the same driver, with no response and with the distance of that entry; no
\* driver has two, and no driver outside the list has one.
C28_OneOfferPerCandidate ==
    Selected =>
        LET L == selection.suitable_drivers
            N == selection.notifications IN
        /\ Len(N) = Len(L)
        /\ \A k \in 1..Len(L) :
              /\ N[k].driver_id = L[k].driver_id
              /\ N[k].response = "null"
              /\ N[k].distance_km = L[k].distance_km
        /\ \A j \in 1..Len(N), k \in 1..Len(N) : j # k => N[j].driver_id # N[k].driver_id

C28_Witness ==
    /\ Selected
    /\ Len(selection.notifications) = 2
    /\ Len(fleet) > 2
    /\ selection.notifications[1].distance_km = Rat(2000, 1000)
    /\ selection.notifications[2].distance_km = Rat(10, 1)
    /\ selection.notifications[1].driver_id > selection.notifications[2].driver_id

\* C29: for the rows of a fleet calculate_drivers_distances gives one result
\* per row, in order, with the row's driver id; the rows the oracle fails for
\* get the haversine estimate, every other row the oracle's.
C29_BatchEstimate ==
    LET results == calculate_drivers_distances(fleet) IN
    /\ Len(results) = Len(fleet)
    /\ \A i \in 1..Len(fleet) :
          /\ results[i].driver_id = fleet[i].id
          /\ OracleFails(fleet[i]) =>
                /\ results[i].distance_km = fleet[i].haversine
                /\ RatEq(results[i].duration_minutes, RatTimes(fleet[i].haversine, 2))
          /\ ~OracleFails(fleet[i]) =>
                /\ RatEq(results[i].distance_km,
                         Rat(fleet[i].response.routes[1].distance, 1000))
                /\ RatEq(results[i].duration_minutes,
                         Rat(fleet[i].response.routes[1].duration, 60))

C29_Witness ==
    /\ Selected
    /\ Len(fleet) = 3
    /\ OracleFails(fleet[1]) /\ ~OracleFails(fleet[2]) /\ OracleFails(fleet[3])
    /\ SelectedIds = {1, 2, 3}

\* C30: an entry of the list returned that comes from the fallback has a
\* duration in minutes of exactly twice its distance in km (20 minutes for
\* 10 km); an entry that comes from the oracle has the oracle's metres / 1000
\* as distance in km and the oracle's seconds / 60 as duration in minutes.
C30_Units ==
    Selected =>
        \A k \in 1..Len(selection.suitable_drivers) :
            LET info == selection.suitable_drivers[k]
                driver == fleet[info.driver_id] IN
            IF OracleFails(driver)
            THEN /\ info.duration_minutes.n * info.distance_km.d
                       = 2 * info.distance_km.n * info.duration_minutes.d
                 /\ RatEq(info.distance_km, Rat(10, 1)) => RatEq(info.duration_minutes, Rat(20, 1))
            ELSE /\ info.distance_km.n * 1000
                       = driver.response.routes[1].distance * info.distance_km.d
                 /\ info.duration_minutes.n * 60
                       = driver.response.routes[1].duration * info.duration_minutes.d

C30_Witness ==
    /\ Selected
    /\ \E k \in 1..Len(selection.suitable_drivers) :
          /\ OracleFails(fleet[selection.suitable_drivers[k].driver_id])
          /\ selection.suitable_drivers[k].distance_km = Rat(10, 1)
          /\ selection.suitable_drivers[k].duration_minutes = Rat(20, 1)
    /\ \E k \in 1..Len(selection.suitable_drivers) :
          /\ ~OracleFails(fleet[selection.suitable_drivers[k].driver_id])
          /\ selection.suitable_drivers[k].duration_minutes = Rat(900, 60)

\* ------------------------------------------------------------------------
\* POST /orders from its first statement: the route estimate of the order
\* itself, the commit of the order row, candidate selection and fan-out.
\* ------------------------------------------------------------------------

\* create_order up to db.refresh(db_order): route_info is the oracle's
\* estimate for pickup -> delivery or None; the order row gets the estimate's
\* distance and duration, or None for both without an estimate, and is
\* committed with status pending
create_order_route ==
    /\ selection.pc = "request"
    /\ LET route_info == get_distance_and_duration(db_order.response) IN
       db_order' = [status |-> "pending",
                    estimated_distance_km |->
                        IF route_info # None THEN route_info.distance_km ELSE None,
                    estimated_duration_minutes |->
                        IF route_info # None THEN route_info.duration_minutes ELSE None]
                   @@ db_order
    /\ selection' = [selection EXCEPT !.pc = "start"]
    /\ UNCHANGED <<fleet, driver_ids>>
    /\ UNCHANGED <<dispatch, hub>>

\* what the oracle answers for the order's own route
RouteAnswers == {Ok(8000, 900), Raises, NoRoute, OkEmpty}
\* per driver, with every kind of failure
CreateEstimates ==
    MixedEstimates \cup {[response |-> OkEmpty, haversine |-> Rat(10, 1)]}

\* a request body with the oracle's answer and the haversine distance for
\* pickup -> delivery, and a fleet on duty
InitCreate ==
    /\ orders = [o \in OrderIds |-> NoOrder]
    /\ drivers = [d \in Drivers |-> ApprovedDriver]
    /\ notifs = [o \in OrderIds |-> [d \in Drivers |-> NoNotification]]
    /\ ordLock = [o \in OrderIds |-> NULL]
    /\ drvLock = [d \in Drivers |-> NULL]
    /\ proc = [p \in 1..NumWorkers |-> Idle]
    /\ ConnectionManager_init
    /\ selection = [NoSelection EXCEPT !.pc = "request"]
    /\ driver_ids = <<>>
    /\ fleet \in Fleets({OnDuty}, CreateEstimates, 0..MaxMixedFleet)
    /\ db_order \in [weight_kg : {None}, value : {None},
                     response : RouteAnswers, haversine : {Rat(7, 1)}]

NextCreate ==
    \/ create_order_route
    \/ get_drivers_for_notification_fleet
    \/ create_order_notify

SpecCreate == InitCreate /\ [][NextCreate]_vars

\* C31: whatever the oracle fails with, for the order's route or for a
\* driver, create_order runs to its end; every driver that passes the filter
\* and is within the radius is in the list, with the haversine distance where
\* the oracle failed for it; and where the oracle failed for the order's own
\* route the order row has the haversine distance and twice that as duration.
C31_OracleFailureNeverBlocks ==
    selection.pc \in {"notify", "return"} =>
        /\ db_order.status = "pending"
        /\ \A i \in Filtered : WithinRadius(fleet[i]) => i \in SelectedIds
        /\ \A k \in 1..Len(selection.suitable_drivers) :
              LET info == selection.suitable_drivers[k] IN
              OracleFails(fleet[info.driver_id]) =>
                 info.distance_km = fleet[info.driver_id].haversine
        /\ OracleFails(db_order) =>
              /\ db_order.estimated_distance_km = db_order.haversine
              /\ db_order.estimated_duration_minutes = RatTimes(db_order.haversine, 2)

\* ------------------------------------------------------------------------
\* POST /orders/{order_id}/accept to its end: after the service returns True
\* the endpoint pushes a status update to the accepting driver and returns.
\* The push of request p is message p.
\* ------------------------------------------------------------------------

\* the message built by send_order_status_update for the request of p
message(p) ==
    [type |-> "order_status_update",
     data |-> [order_id |-> proc[p].ord, status |-> "assigned"]]

\* accept_order after the service returned True: send_order_status_update for
\* current_driver.id, which is send_personal_message up to its await
send_order_status_update(p) ==
    /\ proc[p].pc = "ret"
    /\ proc[p].ret = "True"
    /\ p \in Msgs
    /\ sender[p].pc = "idle"
    /\ sender' = [sender EXCEPT ![p] =
          IF active_connections[proc[p].me] # NULL
          THEN [pc |-> "send_text", driver_id |-> proc[p].me,
                websocket |-> active_connections[proc[p].me], ret |-> "None"]
          ELSE [pc |-> "done", driver_id |-> proc[p].me, websocket |-> NULL, ret |-> "False"]]
    /\ proc' = [proc EXCEPT ![p].pc = "push"]
    /\ UNCHANGED <<orders, drivers, notifs, ordLock, drvLock>>
    /\ UNCHANGED <<active_connections, driver_connections, handler, wire>>
    /\ UNCHANGED creation

\* accept_order returns its message: at once when the service returned False,
\* after the push when it returned True; the request's session is closed
accept_order_return(p) ==
    /\ \/ proc[p].pc = "ret" /\ proc[p].ret = "False"
       \/ proc[p].pc = "push" /\ sender[p].pc = "done" /\ sender[p].ret \in {"True", "False"}
    /\ ordLock' = Release(ordLock, p)
    /\ drvLock' = Release(drvLock, p)
    /\ proc' = [proc EXCEPT ![p].pc = "closed", ![p].own = FALSE, ![p].others = {}]
    /\ UNCHANGED <<orders, drivers, notifs>>
    /\ UNCHANGED <<hub, creation>>

\* a fleet on duty, some of it connected (the websocket of driver d is d),
\* pending orders, the first of them offered to some of the fleet, and clients
\* that send one accept each
InitAccept ==
    /\ drivers = [d \in Drivers |-> [ApprovedDriver EXCEPT !.status = "available"]]
    /\ orders = [o \in OrderIds |-> NewOrder]
    /\ \E offered \in SUBSET Drivers :
          notifs = [o \in OrderIds |-> [d \in Drivers |->
                       IF o = 1 /\ d \in offered THEN NewNotification ELSE NoNotification]]
    /\ ordLock = [o \in OrderIds |-> NULL]
    /\ drvLock = [d \in Drivers |-> NULL]
    /\ proc = [p \in 1..NumRacers |-> Idle]
    /\ \E connected \in SUBSET (Drivers \cap Conns) :
          /\ active_connections = [d \in Drivers |-> IF d \in connected THEN d ELSE NULL]
          /\ driver_connections = [c \in Conns |-> IF c \in connected THEN c ELSE NULL]
          /\ handler = [c \in Conns |-> IF c \in connected
                                        THEN [pc |-> "open", driver_id |-> c]
                                        ELSE NewHandler]
    /\ sender = [m \in Msgs |-> NewSender]
    /\ wire = [c \in Conns |-> {}]
    /\ NoCreation

NextAccept ==
    \/ \E p \in Procs, d \in Drivers, o \in OrderIds : accept_order_begin(p, d, o)
    \/ \E p \in Procs : assign_order_to_first_accepter(p)
    \/ \E p \in Procs : send_order_status_update(p)
    \/ \E m \in Msgs : send_text_returns(m)
    \/ \E m \in Msgs : send_text_raises(m)
    \/ \E p \in Procs : accept_order_return(p)

SpecAccept == InitAccept /\ [][NextAccept]_vars

\* C32: when an accept request that assigned its order has returned, its
\* driver, if connected, was sent the status update assigned for the order
\* (on the driver's wire unless the write failed), and every other driver the
\* order was offered to and who is connected has a message about the order on
\* the wire.
C32_WinnerAndLosersAreTold ==
    \A p \in Procs :
        (proc[p].pc = "closed" /\ proc[p].ret = "True") =>
            LET o == proc[p].ord IN
            /\ sender[p].pc = "done"
            /\ sender[p].driver_id = proc[p].me
            /\ message(p).data = [order_id |-> o, status |-> "assigned"]
            /\ sender[p].ret = "True" => p \in wire[sender[p].websocket]
            /\ \A d \in Drivers \ {proc[p].me} :
                  (notifs[o][d].exists /\ active_connections[d] # NULL) =>
                     \E m \in wire[active_connections[d]] : message(m).data.order_id = o

\* C33: while websocket c2 is the one registered for its driver in both maps,
\* the closing of another websocket c1 of the same driver (its handler ends
\* and calls disconnect, or a write to it fails) leaves c2 in both maps, so
\* that the next send for the driver takes c2.
C33_SupersededCloseKeepsCurrent ==
    [][\A c1 \in Conns, c2 \in Conns :
         LET D == handler[c2].driver_id IN
         ( /\ c1 # c2
           /\ handler[c2].pc = "open"
           /\ handler[c1].driver_id = D
           /\ active_connections[D] = c2
           /\ driver_connections[c2] = D
           /\ \/ handler[c1].pc = "open" /\ handler'[c1].pc # "open"
              \/ \E m \in Msgs : /\ sender[m].pc = "send_text"
                                 /\ sender[m].websocket = c1
                                 /\ sender'[m].pc = "done"
                                 /\ sender'[m].ret # "True" )
         => /\ active_connections'[D] = c2
            /\ driver_connections'[c2] = D
      ]_vars

\* C34: no handler leaves with an exception raised by disconnect; the
\* websocket of a handler that has ended is in neither map; and when every
\* handler has ended both maps are empty.
C34_EndedHandlersLeaveNoEntry ==
    /\ \A c \in Conns : handler[c].pc # "raised"
    /\ \A c \in Conns : handler[c].pc = "ended" =>
          /\ driver_connections[c] = NULL
          /\ \A d \in Drivers : active_connections[d] # c
    /\ (\A c \in Conns : handler[c].pc \in {"ended", "raised"}) =>
          /\ \A d \in Drivers : active_connections[d] = NULL
          /\ \A c \in Conns : driver_connections[c] = NULL

\* C35: a step of an accept request goes on from the order lock exactly when
\* the order is pending, and from the driver lock exactly when the driver is
\* available and approved; past the locks only a persistence error keeps it
\* from returning True, whatever notification the driver has for the order.
\* The commit turns the driver's notification to accepted if it was rejected,
\* and with no notification it assigns the order all the same and creates
\* none.
C35_AssignNeedsNoOffer ==
    [][\A p \in Procs :
         /\ (proc[p].pc = "lock_order" /\ Steps(p) /\ proc'[p].cause # "exception") =>
               (proc'[p].pc = "lock_driver" <=> OrderIsPending(proc[p].ord))
         /\ (proc[p].pc = "lock_driver" /\ Steps(p) /\ proc'[p].cause # "exception") =>
               (proc'[p].pc = "query_own" <=> DriverIsEligible(proc[p].me))
         /\ (proc[p].pc \in {"query_own", "query_others", "commit"} /\ Steps(p)) =>
               \/ proc'[p].pc \in {"query_others", "commit"}
               \/ proc'[p].pc = "ret" /\ proc'[p].ret = "True"
               \/ proc'[p].pc = "ret" /\ proc'[p].cause = "exception"
         /\ Commits(p) =>
               LET o == proc[p].ord
                   d == proc[p].me IN
               /\ orders'[o].driver_id = d /\ orders'[o].status = "assigned"
               /\ notifs[o][d] = RejectedNotification => notifs'[o][d].response = "accepted"
               /\ ~notifs[o][d].exists => ~notifs'[o][d].exists
      ]_vars

\* a driver that was never offered the order has won it, next to a driver
\* that rejected it
C35_Witness ==
    \E p \in Procs, d2 \in Drivers :
        /\ proc[p].pc = "closed"
        /\ proc[p].ret = "True"
        /\ ~notifs[proc[p].ord][proc[p].me].exists
        /\ orders[proc[p].ord].driver_id = proc[p].me
        /\ d2 # proc[p].me
        /\ notifs[proc[p].ord][d2] = RejectedNotification

\* C36: an accept request whose call of the service has returned, whatever
\* the outcome, holds no row lock; and no write to a websocket is in flight
\* for a request that holds a row lock.  (The service calls no routing
\* oracle.)
C36_NoLockOutlivesCall ==
    \A p \in Procs :
        (proc[p].pc \in {"ret", "push", "closed"} \/ (p \in Msgs /\ sender[p].pc = "send_text"))
        => /\ \A o \in OrderIds : ordLock[o] # p
           /\ \A d \in Drivers : drvLock[d] # p

\* ------------------------------------------------------------------------
\* Accept requests racing under fair scheduling: a statement that can run
\* does run, and a session whose request has returned is closed.  Persistence
\* errors may happen but need not.
\* ------------------------------------------------------------------------
SpecRaceFair ==
    /\ InitRace
    /\ [][NextRace]_vars
    /\ \A p \in 1..NumRacers :
          /\ WF_vars(assign_LockOrder(p) \/ assign_LockDriver(p) \/ assign_QueryOwn(p)
                     \/ assign_QueryOthers(p) \/ assign_Commit(p))
          /\ WF_vars(CloseLastSession(p))

\* C37: a request that holds a driver row holds the row of its order, taken
\* before; and every call of the service that has started returns.
C37_EveryCallReturns ==
    /\ [](\A p \in 1..NumRacers, d \in Drivers :
             drvLock[d] = p => (d = proc[p].me /\ ordLock[proc[p].ord] = p))
    /\ \A p \in 1..NumRacers :
          (proc[p].pc \in {"lock_order", "lock_driver", "query_own", "query_others", "commit"})
             ~> (proc[p].pc \in {"ret", "closed"})

\* a request that holds the row of its order waits for the row of its driver,
\* held by another request
C37_Witness ==
    \E p \in Procs, q \in Procs :
        /\ p # q
        /\ proc[p].pc = "lock_driver"
        /\ ordLock[proc[p].ord] = p
        /\ drvLock[proc[p].me] = q
        /\ ordLock[proc[q].ord] = q

\* a call of the service for order o has started: the order is pending and the
\* calling driver passed the endpoint's checks
Called(o) ==
    /\ OrderIsPending(o)
    /\ \E p \in 1..NumRacers : proc[p].ord = o /\ proc[p].pc = "lock_order"
\* a persistence failure has occurred
SomeException == \E p \in 1..NumRacers : proc[p].cause = "exception"

\* C38 as claimed: without a persistence failure, a pending order for which
\* an available, approved driver has called the service is eventually
\* assigned.
C38_CalledOrderIsAssigned ==
    \A o \in OrderIds :
        Called(o) ~> (orders[o].status = "assigned" \/ SomeException)

\* C38 as amended: without a persistence failure, a pending order for which
\* an available, approved driver has called the service is eventually
\* assigned, unless every call for it has returned False because its driver was
\* no longer available at the driver lock, being busy with another order.
C38_SomeContenderWins ==
    \A o \in OrderIds :
        Called(o) ~>
            \/ orders[o].status = "assigned"
            \/ SomeException
            \/ \A p \in 1..NumRacers : proc[p].ord = o =>
                  /\ proc[p].cause = "driver_not_eligible"
                  /\ drivers[proc[p].me].status = "busy"
                  /\ \E o2 \in OrderIds \ {o} : orders[o2].driver_id = proc[p].me

\* a driver called for two pending orders: one call won its order, the other
\* returned False at the driver lock and left its order pending, and nothing
\* failed
C38_Witness ==
    \E p \in Procs, q \in Procs :
        /\ proc[p].pc = "closed" /\ proc[q].pc = "closed"
        /\ proc[p].me = proc[q].me
        /\ proc[p].ord # proc[q].ord
        /\ orders[proc[p].ord].status = "assigned"
        /\ orders[proc[p].ord].driver_id = proc[p].me
        /\ OrderIsPending(proc[q].ord)
        /\ proc[q].cause = "driver_not_eligible"
        /\ drivers[proc[q].me].status = "busy"
        /\ ~SomeException

\* C39: a step of update_order_status by driver d for order o is a step of
\* the order's driver; it writes the status; with delivered the driver is
\* available afterwards, in the same step, and with any other status the
\* drivers table is unchanged; no other driver row, no other order, no
\* notification, lock or request changes.
C39_DeliveredFreesDriver ==
    [][\A d \in Drivers, o \in OrderIds, s \in OrderStatus :
         update_order_status(d, o, s) =>
            /\ orders[o].driver_id = d
            /\ orders'[o] = [orders[o] EXCEPT !.status = s]
            /\ \A o2 \in OrderIds \ {o} : orders'[o2] = orders[o2]
            /\ s = "delivered" => drivers'[d].status = "available"
            /\ s # "delivered" => drivers' = drivers
            /\ \A d2 \in Drivers \ {d} : drivers'[d2] = drivers[d2]
            /\ drivers'[d].approval_status = drivers[d].approval_status
            /\ UNCHANGED <<notifs, ordLock, drvLock, proc>>
      ]_vars

\* a driver cancelled one order and delivered another, and is available
C39_Witness ==
    \E d \in Drivers, o \in OrderIds, o2 \in OrderIds :
        /\ orders[o].driver_id = d /\ orders[o].status = "delivered"
        /\ orders[o2].driver_id = d /\ orders[o2].status = "cancelled"
        /\ drivers[d].status = "available"

====
